---- MODULE Spec2Model ----
(***************************************************************************)
(* pika/compat.py: nonblocking_socketpair.                                 *)
(*                                                                         *)
(* Several threads call nonblocking_socketpair concurrently.  Every call   *)
(* of the socket API made by the function is one atomic step of the        *)
(* calling thread; any of them may raise OSError.  The kernel side of the  *)
(* socket API (port table, listen queues, peer relation, blocking flag)    *)
(* is part of the state.  A socket object is named by the call that        *)
(* created it and the local variable that holds it: <<c, "l">> is lsock    *)
(* of call c, <<c, "c">> its csock and <<c, "s">> its ssock.               *)
(***************************************************************************)
EXTENDS Integers, Sequences, FiniteSets, TLC

\* ---- bounds ----
NCalls == 2

\* ---- values of the socket module used by the function ----
AF_INET == "AF_INET"
AF_INET6 == "AF_INET6"
AF_UNIX == "AF_UNIX"
SOCK_STREAM == "SOCK_STREAM"
SOCK_DGRAM == "SOCK_DGRAM"
SOMAXCONN == 4096
_LOCALHOST == "127.0.0.1"
_LOCALHOST_V6 == "::1"

Families == {AF_INET, AF_INET6, AF_UNIX}
SocketTypes == {SOCK_STREAM, SOCK_DGRAM}
Protos == {0, 6}

Calls == 1..NCalls
Roles == {"l", "c", "s"}
Socks == Calls \X Roles
\* a call binds one socket, so one ephemeral port per call is enough
Ports == 1..NCalls

NoExc == [type |-> "none", op |-> "none", sock |-> "none"]
ValueError(what) == [type |-> "ValueError", op |-> what, sock |-> "none"]
OSError(op, role) == [type |-> "OSError", op |-> op, sock |-> role]

Min(a, b) == IF a < b THEN a ELSE b

VARIABLES
    args,      \* per call: the arguments family, socket_type, proto
    pc,        \* per call: the statement the call is at
    host,      \* per call: local variable host
    addr,      \* per call: local variable addr
    port,      \* per call: local variable port
    exc,       \* per call: the exception in flight, or the one raised to the caller
    result,    \* per call: the returned tuple, <<>> while there is none
    log,       \* per call: the socket API calls made so far, in order
    sst,       \* per socket: "none", "open", "bound", "listening", "connected", "closed"
    sfam,      \* per socket: its address family
    sbind,     \* per socket: the local endpoint <<host, port>>, <<>> while unbound
    speer,     \* per socket: the socket at the other end of its connection, <<>> if none
    sblk,      \* per socket: TRUE while the socket is in blocking mode
    sq,        \* per socket: the queue of completed connections of a listener
    sacc,      \* per socket: the listener whose accept() made it, <<>> for the others
    failing    \* the call whose socket API calls have raised OSError, 0 while none has

vars == <<args, pc, host, addr, port, exc, result, log,
          sst, sfam, sbind, speer, sblk, sq, sacc, failing>>
locals == <<host, addr, port>>
kernel == <<sst, sfam, sbind, speer, sblk, sq, sacc>>

\* ---- the function's own decisions ----

\* the argument checks without the one of proto
ArgCheckNoProto(a) ==
    IF a.family # AF_INET /\ a.family # AF_INET6 THEN "family"
    ELSE IF a.socket_type # SOCK_STREAM THEN "socket_type"
    ELSE "ok"

\* lines 159-169: the argument checks, in order; "ok" when all pass
ArgCheck(a) ==
    IF a.family # AF_INET /\ a.family # AF_INET6 THEN "family"
    ELSE IF a.socket_type # SOCK_STREAM THEN "socket_type"
    ELSE IF a.proto # 0 THEN "proto"
    ELSE "ok"

\* lines 159-162
HostOf(family) == IF family = AF_INET THEN _LOCALHOST ELSE _LOCALHOST_V6

\* line 173: the address lsock is bound to
BindTarget(c) == <<host[c], 0>>

\* line 174
Backlog == Min(SOMAXCONN, 128)

\* line 176: the [:2] slice of getsockname()
FirstTwo(t) == SubSeq(t, 1, 2)

\* csock connected to a port written down instead of the one read back
ConnectTargetFixedPort(c) == <<addr[c], 1>>

\* line 179: the address csock is connected to
ConnectTarget(c) == <<addr[c], port[c]>>

\* csock.setblocking(False) left out
AfterOkSkipClient(label) ==
    CASE label = "socket_l"      -> "bind"
      [] label = "bind"          -> "listen"
      [] label = "listen"        -> "getsockname"
      [] label = "getsockname"   -> "socket_c"
      [] label = "socket_c"      -> "connect"
      [] label = "connect"       -> "accept"
      [] label = "accept"        -> "finally_close"
      [] label = "finally_close" -> "setblocking_s"
      [] label = "setblocking_c" -> "setblocking_s"
      [] label = "setblocking_s" -> "returned"

\* the sockets made non-blocking inside the try block, before lsock.close()
AfterOkEarlyNonBlocking(label) ==
    CASE label = "socket_l"      -> "bind"
      [] label = "bind"          -> "listen"
      [] label = "listen"        -> "getsockname"
      [] label = "getsockname"   -> "socket_c"
      [] label = "socket_c"      -> "connect"
      [] label = "connect"       -> "accept"
      [] label = "accept"        -> "setblocking_c"
      [] label = "setblocking_c" -> "setblocking_s"
      [] label = "setblocking_s" -> "finally_close"
      [] label = "finally_close" -> "returned"

\* the statement that follows a statement that completed normally
AfterOk(label) ==
    CASE label = "socket_l"      -> "bind"
      [] label = "bind"          -> "listen"
      [] label = "listen"        -> "getsockname"
      [] label = "getsockname"   -> "socket_c"
      [] label = "socket_c"      -> "connect"
      [] label = "connect"       -> "accept"
      [] label = "accept"        -> "finally_close"
      [] label = "finally_close" -> "setblocking_c"
      [] label = "setblocking_c" -> "setblocking_s"
      [] label = "setblocking_s" -> "returned"

\* bind() and listen() called before the try block
HandlerNoFinally(label) ==
    CASE label \in {"connect", "accept"} -> "except_close"
      [] label \in {"getsockname", "socket_c", "except_close"}
                                         -> "finally_close"
      [] OTHER                           -> "raised"

\* where control goes when a statement raises: the except clause of the
\* inner try (lines 178-183), the finally clause of the outer try
\* (lines 172-185), or the caller
Handler(label) ==
    CASE label \in {"connect", "accept"} -> "except_close"
      [] label \in {"bind", "listen", "getsockname", "socket_c", "except_close"}
                                         -> "finally_close"
      [] OTHER                           -> "raised"

\* the pair returned the other way round
ResultPairSwapped(c) == <<<<c, "c">>, <<c, "s">>>>

\* line 192
ResultPair(c) == <<<<c, "s">>, <<c, "c">>>>

\* ---- the kernel side ----

Entry(op, role, ok, arg) == [op |-> op, sock |-> role, ok |-> ok, arg |-> arg]

\* ports of host h that a live socket is bound to
UsedPorts(h) ==
    {sbind[s][2] : s \in {t \in Socks : sst[t] \in {"bound", "listening"}
                                         /\ sbind[t] # <<>> /\ sbind[t][1] = h}}

\* the ports bind((h, p)) may give.  For p = 0 the kernel assigns a free
\* port; port numbers matter only up to equality, and the lowest free one
\* gives both cases there are: listeners alive together get different ports,
\* and a port is assigned again as soon as its listener is closed
BindPorts(h, p) ==
    LET free == Ports \ UsedPorts(h) IN
    IF p = 0 THEN {q \in free : \A r \in free : q <= r} ELSE {p} \cap free

\* the listening sockets at an endpoint
ListenersAt(ep) == {s \in Socks : sst[s] = "listening" /\ sbind[s] = ep}

\* what getsockname() returns: IPv6 adds flow_info and scope_id
SockName(s) == IF sfam[s] = AF_INET6 THEN sbind[s] \o <<0, 0>> ELSE sbind[s]

\* closing a socket: the descriptor is released whether or not close() raises
Closed(s) ==
    /\ sst' = [sst EXCEPT ![s] = "closed"]
    /\ sq' = [sq EXCEPT ![s] = <<>>]
    /\ UNCHANGED <<sfam, sbind, speer, sblk, sacc>>

\* a statement of call c at label raised e
Raise(c, label, e) ==
    /\ pc' = [pc EXCEPT ![c] = Handler(label)]
    /\ exc' = [exc EXCEPT ![c] = e]
    /\ failing' = IF failing = 0 THEN c ELSE failing

\* the environment makes socket API calls fail for no reason of the model's
\* in one call of nonblocking_socketpair per behaviour, any number of times:
\* the calls share nothing but the kernel, and a failure is a matter of the
\* call it happens in
MayFail(c) == failing \in {0, c}

Logged(c, e) == log' = [log EXCEPT ![c] = Append(@, e)]

NoArgs == [family |-> "none", socket_type |-> "none", proto |-> 0]
ArgSets == [family : Families, socket_type : SocketTypes, proto : Protos]

Init ==
    /\ args = [c \in Calls |-> NoArgs]
    /\ pc = [c \in Calls |-> "start"]
    /\ host = [c \in Calls |-> "unset"]
    /\ addr = [c \in Calls |-> "unset"]
    /\ port = [c \in Calls |-> 0]
    /\ exc = [c \in Calls |-> NoExc]
    /\ result = [c \in Calls |-> <<>>]
    /\ log = [c \in Calls |-> <<>>]
    /\ sst = [s \in Socks |-> "none"]
    /\ sfam = [s \in Socks |-> "none"]
    /\ sbind = [s \in Socks |-> <<>>]
    /\ speer = [s \in Socks |-> <<>>]
    /\ sblk = [s \in Socks |-> TRUE]
    /\ sq = [s \in Socks |-> <<>>]
    /\ sacc = [s \in Socks |-> <<>>]
    /\ failing = 0

\* ---- the statements of nonblocking_socketpair ----

\* lines 149-169: the call is entered with arguments a
Validate(c) ==
    /\ pc[c] = "start"
    /\ \E a \in ArgSets :
         /\ args' = [args EXCEPT ![c] = a]
         /\ IF ArgCheck(a) = "ok"
            THEN /\ host' = [host EXCEPT ![c] = HostOf(a.family)]
                 /\ pc' = [pc EXCEPT ![c] = "socket_l"]
                 /\ UNCHANGED exc
            ELSE /\ exc' = [exc EXCEPT ![c] = ValueError(ArgCheck(a))]
                 /\ pc' = [pc EXCEPT ![c] = "raised"]
                 /\ UNCHANGED host
    /\ UNCHANGED <<addr, port, result, log, kernel, failing>>

\* socket.socket(family, socket_type, proto), lines 171 and 177
NewSocket(c, label, role, ok) ==
    /\ pc[c] = label
    /\ ok \/ MayFail(c)
    /\ Logged(c, Entry("socket", role, ok, <<>>))
    /\ IF ok
       THEN /\ sst' = [sst EXCEPT ![<<c, role>>] = "open"]
            /\ sfam' = [sfam EXCEPT ![<<c, role>>] = args[c].family]
            /\ pc' = [pc EXCEPT ![c] = AfterOk(label)]
            /\ UNCHANGED <<exc, failing>>
       ELSE /\ Raise(c, label, OSError("socket", role))
            /\ UNCHANGED <<sst, sfam>>
    /\ UNCHANGED <<args, locals, result, sbind, speer, sblk, sq, sacc>>

\* line 171
SocketL(c) == \E ok \in BOOLEAN : NewSocket(c, "socket_l", "l", ok)

\* line 177
SocketC(c) == \E ok \in BOOLEAN : NewSocket(c, "socket_c", "c", ok)

\* line 173
Bind(c) ==
    /\ pc[c] = "bind"
    /\ LET t == BindTarget(c) IN
       \/ \E p \in BindPorts(t[1], t[2]) :
            /\ Logged(c, Entry("bind", "l", TRUE, t))
            /\ sst' = [sst EXCEPT ![<<c, "l">>] = "bound"]
            /\ sbind' = [sbind EXCEPT ![<<c, "l">>] = <<t[1], p>>]
            /\ pc' = [pc EXCEPT ![c] = AfterOk("bind")]
            /\ UNCHANGED <<exc, failing>>
       \/ /\ MayFail(c) \/ BindPorts(t[1], t[2]) = {}
          /\ Logged(c, Entry("bind", "l", FALSE, t))
          /\ Raise(c, "bind", OSError("bind", "l"))
          /\ UNCHANGED <<sst, sbind>>
    /\ UNCHANGED <<args, locals, result, sfam, speer, sblk, sq, sacc>>

\* line 174
Listen(c) ==
    /\ pc[c] = "listen"
    /\ \E ok \in BOOLEAN :
         /\ ok \/ MayFail(c)
         /\ Logged(c, Entry("listen", "l", ok, <<Backlog>>))
         /\ IF ok
            THEN /\ sst' = [sst EXCEPT ![<<c, "l">>] = "listening"]
                 /\ pc' = [pc EXCEPT ![c] = AfterOk("listen")]
                 /\ UNCHANGED <<exc, failing>>
            ELSE /\ Raise(c, "listen", OSError("listen", "l"))
                 /\ UNCHANGED sst
    /\ UNCHANGED <<args, locals, result, sfam, sbind, speer, sblk, sq, sacc>>

\* line 176
GetSockName(c) ==
    /\ pc[c] = "getsockname"
    /\ \E ok \in BOOLEAN :
         /\ ok \/ MayFail(c)
         /\ Logged(c, Entry("getsockname", "l", ok, <<>>))
         /\ IF ok
            THEN /\ addr' = [addr EXCEPT ![c] = FirstTwo(SockName(<<c, "l">>))[1]]
                 /\ port' = [port EXCEPT ![c] = FirstTwo(SockName(<<c, "l">>))[2]]
                 /\ pc' = [pc EXCEPT ![c] = AfterOk("getsockname")]
                 /\ UNCHANGED <<exc, failing>>
            ELSE /\ Raise(c, "getsockname", OSError("getsockname", "l"))
                 /\ UNCHANGED <<addr, port>>
    /\ UNCHANGED <<args, host, result, kernel>>

\* line 179: the connection is completed by the kernel of the listening
\* side and queued there until accept() takes it
Connect(c) ==
    /\ pc[c] = "connect"
    /\ LET t == ConnectTarget(c) IN
       \/ \E l \in ListenersAt(t) :
            /\ Len(sq[l]) < Backlog
            /\ Logged(c, Entry("connect", "c", TRUE, t))
            /\ sst' = [sst EXCEPT ![<<c, "c">>] = "connected"]
            /\ sq' = [sq EXCEPT ![l] = Append(@, <<c, "c">>)]
            /\ pc' = [pc EXCEPT ![c] = AfterOk("connect")]
            /\ UNCHANGED <<exc, failing>>
       \/ /\ MayFail(c) \/ \A l \in ListenersAt(t) : Len(sq[l]) >= Backlog
          /\ Logged(c, Entry("connect", "c", FALSE, t))
          /\ Raise(c, "connect", OSError("connect", "c"))
          /\ UNCHANGED <<sst, sq>>
    /\ UNCHANGED <<args, locals, result, sfam, sbind, speer, sblk, sacc>>

\* line 180: lsock is blocking, so accept() waits for a queued connection
Accept(c) ==
    /\ pc[c] = "accept"
    /\ \/ /\ sq[<<c, "l">>] # <<>>
          /\ LET h == Head(sq[<<c, "l">>]) IN
               /\ sst' = [sst EXCEPT ![<<c, "s">>] = "connected"]
               /\ sfam' = [sfam EXCEPT ![<<c, "s">>] = sfam[<<c, "l">>]]
               /\ sbind' = [sbind EXCEPT ![<<c, "s">>] = sbind[<<c, "l">>]]
               /\ speer' = [speer EXCEPT ![<<c, "s">>] = h, ![h] = <<c, "s">>]
               /\ sq' = [sq EXCEPT ![<<c, "l">>] = Tail(@)]
               /\ sacc' = [sacc EXCEPT ![<<c, "s">>] = <<c, "l">>]
          /\ Logged(c, Entry("accept", "l", TRUE, <<>>))
          /\ pc' = [pc EXCEPT ![c] = AfterOk("accept")]
          /\ UNCHANGED <<exc, failing>>
       \/ /\ MayFail(c)
          /\ Logged(c, Entry("accept", "l", FALSE, <<>>))
          /\ Raise(c, "accept", OSError("accept", "l"))
          /\ UNCHANGED <<sst, sfam, sbind, speer, sq, sacc>>
    /\ UNCHANGED <<args, locals, result, sblk>>

\* lines 181-183: csock.close(), then re-raise the exception in flight;
\* an exception of close() takes its place
ExceptClose(c) ==
    /\ pc[c] = "except_close"
    /\ Closed(<<c, "c">>)
    /\ \E ok \in BOOLEAN :
         /\ ok \/ MayFail(c)
         /\ Logged(c, Entry("close", "c", ok, <<>>))
         /\ IF ok
            THEN /\ pc' = [pc EXCEPT ![c] = Handler("except_close")]
                 /\ UNCHANGED <<exc, failing>>
            ELSE Raise(c, "except_close", OSError("close", "c"))
    /\ UNCHANGED <<args, locals, result>>

\* lines 184-185: lsock.close(), then the exception in flight goes on to
\* the caller; an exception of close() takes its place
FinallyClose(c) ==
    /\ pc[c] = "finally_close"
    /\ Closed(<<c, "l">>)
    /\ \E ok \in BOOLEAN :
         /\ ok \/ MayFail(c)
         /\ Logged(c, Entry("close", "l", ok, <<>>))
         /\ IF ok
            THEN /\ pc' = [pc EXCEPT ![c] = IF exc[c] = NoExc
                                            THEN AfterOk("finally_close")
                                            ELSE Handler("finally_close")]
                 /\ UNCHANGED <<exc, failing>>
            ELSE Raise(c, "finally_close", OSError("close", "l"))
    /\ UNCHANGED <<args, locals, result>>

\* socket.setblocking(False), lines 189 and 190
SetNonBlocking(c, label, role, ok) ==
    /\ pc[c] = label
    /\ ok \/ MayFail(c)
    /\ Logged(c, Entry("setblocking", role, ok, <<FALSE>>))
    /\ IF ok
       THEN /\ sblk' = [sblk EXCEPT ![<<c, role>>] = FALSE]
            /\ pc' = [pc EXCEPT ![c] = AfterOk(label)]
            /\ UNCHANGED <<exc, failing>>
       ELSE /\ Raise(c, label, OSError("setblocking", role))
            /\ UNCHANGED sblk
    /\ UNCHANGED <<args, locals, sst, sfam, sbind, speer, sq, sacc>>

\* line 189
SetBlockingC(c) ==
    /\ \E ok \in BOOLEAN : SetNonBlocking(c, "setblocking_c", "c", ok)
    /\ UNCHANGED result

\* lines 190-192: the last statement and the return
SetBlockingS(c) ==
    /\ \E ok \in BOOLEAN :
         /\ SetNonBlocking(c, "setblocking_s", "s", ok)
         /\ result' = [result EXCEPT ![c] = IF ok THEN ResultPair(c) ELSE <<>>]

Next ==
    \/ \E c \in Calls : Validate(c)
    \/ \E c \in Calls : SocketL(c)
    \/ \E c \in Calls : Bind(c)
    \/ \E c \in Calls : Listen(c)
    \/ \E c \in Calls : GetSockName(c)
    \/ \E c \in Calls : SocketC(c)
    \/ \E c \in Calls : Connect(c)
    \/ \E c \in Calls : Accept(c)
    \/ \E c \in Calls : ExceptClose(c)
    \/ \E c \in Calls : FinallyClose(c)
    \/ \E c \in Calls : SetBlockingC(c)
    \/ \E c \in Calls : SetBlockingS(c)

Spec == Init /\ [][Next]_vars

\* ---- the claims ----

Done(c) == pc[c] \in {"returned", "raised"}
Entered(c) == pc[c] # "start"
Mine(c) == {<<c, r>> : r \in Roles}
Live(s) == sst[s] \notin {"none", "closed"}
Supported(a) ==
    /\ a.family \in {AF_INET, AF_INET6}
    /\ a.socket_type = SOCK_STREAM
    /\ a.proto = 0
\* the positions of the log of call c at which op was called on the socket role
CallsOf(c, op, role) ==
    {i \in DOMAIN log[c] : log[c][i].op = op /\ log[c][i].sock = role}
Failed(c, op, role) == \E i \in CallsOf(c, op, role) : ~log[c][i].ok
\* the position of the first call of the log of c that raised, 0 if none did
FirstFailure(c) ==
    IF \A i \in DOMAIN log[c] : log[c][i].ok THEN 0
    ELSE CHOOSE i \in DOMAIN log[c] :
           ~log[c][i].ok /\ \A j \in 1..(i - 1) : log[c][j].ok
Loopback(family) == IF family = AF_INET THEN "127.0.0.1" ELSE "::1"

\* C1: a call whose family is neither AF_INET nor AF_INET6, or whose
\* socket_type is not SOCK_STREAM, or whose proto is not 0, ends with
\* ValueError, and has made no call of the socket API and owns no socket.
C1_BadArgumentsTouchNoSocket ==
    \A c \in Calls :
        (Entered(c) /\ ~Supported(args[c])) =>
            /\ pc[c] = "raised"
            /\ exc[c].type = "ValueError"
            /\ result[c] = <<>>
            /\ log[c] = <<>>
            /\ \A s \in Mine(c) : sst[s] = "none"

\* a call was refused for its proto alone while another call has sockets open
C1_Witness ==
    \E c, d \in Calls :
        /\ pc[c] = "raised" /\ exc[c] = ValueError("proto")
        /\ args[c].family = AF_INET6
        /\ \E s \in Mine(d) : Live(s)

\* C2: a call that returned has returned (server side, client side): the
\* first is the socket accept() on the call's own listener made, the second
\* the socket the call connected to that listener, both are open and each is
\* the peer of the other.
C2_ReturnsConnectedPair ==
    \A c \in Calls :
        pc[c] = "returned" =>
            /\ Len(result[c]) = 2
            /\ sacc[result[c][1]] = <<c, "l">>
            /\ result[c][2] = <<c, "c">>
            /\ \E i \in CallsOf(c, "connect", "c") :
                 log[c][i].ok /\ log[c][i].arg = sbind[<<c, "l">>]
            /\ sst[result[c][1]] = "connected"
            /\ sst[result[c][2]] = "connected"
            /\ speer[result[c][1]] = result[c][2]
            /\ speer[result[c][2]] = result[c][1]

\* two calls of the same family have both returned
C2_Witness ==
    \E c, d \in Calls :
        /\ c # d
        /\ pc[c] = "returned" /\ pc[d] = "returned"
        /\ args[c].family = args[d].family

\* C3: whenever a call has a result, both sockets of the result are
\* non-blocking.
C3_ReturnedSocketsNonBlocking ==
    \A c \in Calls :
        (pc[c] = "returned" \/ result[c] # <<>>) =>
            /\ Len(result[c]) = 2
            /\ \A i \in 1..2 : ~sblk[result[c][i]]

\* a call has returned while the sockets of another call are still blocking
C3_Witness ==
    \E c, d \in Calls :
        /\ pc[c] = "returned"
        /\ pc[d] = "finally_close" /\ sblk[<<d, "c">>] /\ sst[<<d, "s">>] = "connected"

\* C4: a call that has created its listener closes it at most once while it
\* runs, and when the call is over it has closed it exactly once, the
\* listener is closed, no socket of the call is listening and the listener
\* is not in the result.
C4_ListenerClosedExactlyOnce ==
    \A c \in Calls :
        sst[<<c, "l">>] # "none" =>
            /\ Cardinality(CallsOf(c, "close", "l")) <= 1
            /\ Done(c) =>
                 /\ Cardinality(CallsOf(c, "close", "l")) = 1
                 /\ sst[<<c, "l">>] = "closed"
                 /\ \A s \in Mine(c) : sst[s] # "listening"
                 /\ \A i \in DOMAIN result[c] : result[c][i] # <<c, "l">>

\* one call is over after listen() raised, another after it returned
C4_Witness ==
    \E c, d \in Calls :
        /\ pc[c] = "raised" /\ Failed(c, "listen", "l")
        /\ pc[d] = "returned"

\* C5: when connect() has raised and the call is over, csock and lsock are
\* closed, accept() was not called, there is no ssock, and the caller has
\* the OSError of connect().
C5_ConnectFailure ==
    \A c \in Calls :
        (pc[c] = "raised" /\ Failed(c, "connect", "c")) =>
            /\ sst[<<c, "c">>] = "closed"
            /\ sst[<<c, "l">>] = "closed"
            /\ CallsOf(c, "accept", "l") = {}
            /\ sst[<<c, "s">>] = "none"
            /\ exc[c] = OSError("connect", "c")

\* C6: when a call is over with an error that arose in bind, listen,
\* getsockname, the creation of a socket, connect, accept or setblocking,
\* every socket the call opened is closed.
C6_NoSocketOpenAfterError ==
    \A c \in Calls :
        LET f == FirstFailure(c) IN
        (pc[c] = "raised" /\ f # 0 /\ log[c][f].op # "close") =>
            \A s \in Mine(c) : ~Live(s)

\* C7: when a step of the handshake has raised and a close() of the cleanup
\* has raised too, the caller has the error of the handshake step, and
\* neither csock nor lsock is open.
C7_CleanupKeepsOriginalError ==
    \A c \in Calls :
        LET f == FirstFailure(c) IN
        (/\ pc[c] = "raised"
         /\ f # 0
         /\ log[c][f].op # "close"
         /\ \E i \in DOMAIN log[c] : log[c][i].op = "close" /\ ~log[c][i].ok) =>
            /\ exc[c] = OSError(log[c][f].op, log[c][f].sock)
            /\ ~Live(<<c, "c">>)
            /\ ~Live(<<c, "l">>)

\* C8: bind(), listen(), connect() and accept() are each called at most once
\* in a call; after the first of them that raises, the call calls nothing
\* but close(), and it ends with that error raised and no result.
C8_FirstFailureIsFinal ==
    \A c \in Calls :
        LET f == FirstFailure(c) IN
        /\ \A op \in {"bind", "listen", "connect", "accept"} :
             Cardinality({i \in DOMAIN log[c] : log[c][i].op = op}) <= 1
        /\ (f # 0 /\ log[c][f].op \in {"bind", "listen", "connect", "accept"}) =>
             /\ \A i \in (f + 1)..Len(log[c]) : log[c][i].op = "close"
             /\ pc[c] # "returned"
             /\ result[c] = <<>>
             /\ pc[c] = "raised" => exc[c] = OSError(log[c][f].op, log[c][f].sock)

\* C9: while no call of the socket API has raised, a call waiting in
\* accept() has its own client and nothing else in the queue of its
\* listener, a call with supported arguments that is over has returned a
\* pair, the server side of the pair is connected to the client side of the
\* same call, and no socket is in the pairs of two calls.
C9_ConcurrentCallsIsolated ==
    failing = 0 =>
        \A c \in Calls :
            /\ pc[c] = "accept" => sq[<<c, "l">>] = << <<c, "c">> >>
            /\ (Done(c) /\ Supported(args[c])) =>
                 /\ pc[c] = "returned"
                 /\ Len(result[c]) = 2
                 /\ speer[result[c][1]] = result[c][2]
                 /\ speer[result[c][2]] = result[c][1]
                 /\ {result[c][1], result[c][2]} \subseteq Mine(c)
                 /\ \A d \in Calls \ {c} : \A i \in DOMAIN result[d] :
                      result[d][i] \notin {result[c][1], result[c][2]}

\* two calls have returned, and the listener of the second was given the port
\* the listener of the first had before it was closed
C9_Witness ==
    /\ failing = 0
    /\ \E c, d \in Calls :
         /\ c # d
         /\ pc[c] = "returned" /\ pc[d] = "returned"
         /\ sbind[<<c, "l">>] = sbind[<<d, "l">>]

\* the order of the calls of the socket API in a call without failure
Order ==
    << <<"socket", "l">>, <<"bind", "l">>, <<"listen", "l">>,
       <<"getsockname", "l">>, <<"socket", "c">>, <<"connect", "c">>,
       <<"accept", "l">>, <<"close", "l">>, <<"setblocking", "c">>,
       <<"setblocking", "s">> >>

\* C10: as long as no step of a call has raised, the call makes its calls of
\* the socket API in the order socket, bind, listen, getsockname, socket,
\* connect, accept, close of the listener, setblocking of the client side,
\* setblocking of the server side; bind is to (loopback, 0), connect is to
\* the address and port the listener was bound to, connect comes after a
\* listen that succeeded, accept after a connect that succeeded, and
\* setblocking after an accept that succeeded and the close of the listener.
C10_FixedOrder ==
    \A c \in Calls :
        LET L == log[c]
            f == FirstFailure(c)
            n == IF f = 0 THEN Len(L) ELSE f
        IN
        /\ n <= Len(Order)
        /\ \A i \in 1..n : <<L[i].op, L[i].sock>> = Order[i]
        /\ \A i \in DOMAIN L :
             /\ L[i].op = "bind" => L[i].arg = <<Loopback(args[c].family), 0>>
             /\ L[i].op = "connect" =>
                  /\ \E j \in 1..(i - 1) : L[j].op = "listen" /\ L[j].ok
                  /\ L[i].arg[1] = Loopback(args[c].family)
                  /\ L[i].ok => L[i].arg = sbind[<<c, "l">>]
             /\ L[i].op = "accept" =>
                  \E j \in 1..(i - 1) : L[j].op = "connect" /\ L[j].ok
             /\ L[i].op = "setblocking" =>
                  /\ \E j \in 1..(i - 1) : L[j].op = "accept" /\ L[j].ok
                  /\ \E j \in 1..(i - 1) : L[j].op = "close" /\ L[j].sock = "l"

\* a call over IPv6 has made all ten calls and returned
C10_Witness ==
    \E c \in Calls :
        /\ pc[c] = "returned"
        /\ args[c].family = AF_INET6
        /\ Len(log[c]) = Len(Order)

====
